---- MODULE Spec2Model ----
(***************************************************************************)
(* A model of cp-fs (src/src/main.rs): the ignore matcher, the traversal   *)
(* loop of main, the output assembler and the clipboard/report tail.       *)
(*                                                                         *)
(* Strings are sequences of one-character strings; a path is the sequence  *)
(* of its components (each a string).  File and directory names are valid  *)
(* Unicode, so OsStr::to_str is Some(name) and to_string_lossy changes     *)
(* nothing in a name; file CONTENTS are byte strings and may be invalid    *)
(* UTF-8.  The bytes 0x00, 0xFE, 0xFF are written "x00", "xFE", "xFF" and  *)
(* U+FFFD is written "uFFFD".                                              *)
(***************************************************************************)
EXTENDS Integers, Sequences, FiniteSets

VARIABLES
    platform,         \* the build target: decides std::path::MAIN_SEPARATOR
    args,             \* Args { path, ignore }                     (main.rs:139)
    pc,               \* position of main
    i,                \* index of the user-pattern loop            (main.rs:151)
    ignore_patterns,  \* IgnorePatterns { exact_matches, glob_patterns }
    output,           \* the String `output`                       (main.rs:140)
    files,            \* the HashSet `files`                       (main.rs:155)
    processed,        \* history: the entries Walk has yielded so far
    stderr,           \* the warnings written by eprintln!
    stdout,           \* the lines written by println!
    clipboard,        \* what Clipboard::new / set_text did
    pending,          \* the part of `files` the report loop has not printed
    result,           \* what main returned: "none" while running, "Ok", "Err"
    probe             \* last should_ignore_file call of SpecRules

vars == << platform, args, pc, i, ignore_patterns, output, files, processed,
           stderr, stdout, clipboard, pending, result, probe >>

(***************************************************************************)
(* Bounds of the model.                                                    *)
(***************************************************************************)
MaxEntries == 2      \* entries the directory iterator yields in one run
MaxIgnore == 2       \* length of the --ignore list in SpecRules
MaxDepth == 2        \* depth below the scan root of the probed paths

(***************************************************************************)
(* Strings.                                                                *)
(***************************************************************************)
Contains(s, c) == \E k \in 1..Len(s) : s[k] = c

\* slice s[from..to) with 0-based bounds, as Rust writes it
Slice(s, from, to) == SubSeq(s, from + 1, to)

\* s[from..].iter().position(|x| *x == c): the 0-based offset, or -1 for None
Position(s, from, c) ==
    LET hits == { k \in from..(Len(s) - 1) : s[k + 1] = c }
    IN  IF hits = {} THEN -1
        ELSE (CHOOSE k \in hits : \A h \in hits : k <= h) - from

StartsWith(s, prefix) ==
    /\ Len(prefix) <= Len(s)
    /\ SubSeq(s, 1, Len(prefix)) = prefix

(***************************************************************************)
(* std::path on the two families of targets.                               *)
(***************************************************************************)
Platforms == {"unix", "windows"}

MAIN_SEPARATOR == IF platform = "windows" THEN "\\" ELSE "/"

\* std::path::is_separator
is_separator(c) == IF platform = "windows" THEN c \in {"/", "\\"} ELSE c = "/"

\* to_string_lossy on a target where every path is joined with '/'
RECURSIVE to_string_lossy_slash(_)
to_string_lossy_slash(path) ==
    IF path = << >> THEN << >>
    ELSE IF Len(path) = 1 THEN path[1]
    ELSE to_string_lossy_slash(SubSeq(path, 1, Len(path) - 1))
            \o << "/" >> \o path[Len(path)]

\* Path::to_string_lossy of a path built by joining components
RECURSIVE to_string_lossy(_)
to_string_lossy(path) ==
    IF path = << >> THEN << >>
    ELSE IF Len(path) = 1 THEN path[1]
    ELSE to_string_lossy(SubSeq(path, 1, Len(path) - 1))
            \o << MAIN_SEPARATOR >> \o path[Len(path)]

\* Path::strip_prefix: Ok(rest) when base is a component-wise prefix
strip_prefix(path, base) ==
    IF Len(base) <= Len(path) /\ SubSeq(path, 1, Len(base)) = base
    THEN [ok |-> TRUE, path |-> SubSeq(path, Len(base) + 1, Len(path))]
    ELSE [ok |-> FALSE, path |-> << >>]

(***************************************************************************)
(* glob::Pattern with MatchOptions::new(): case sensitive, no literal      *)
(* separator, no literal leading dot.  The pattern alphabet has no '-', so *)
(* a character class is a set of single characters.                        *)
(***************************************************************************)
Char(c) == [kind |-> "Char", c |-> c, cs |-> {}]
AnyChar == [kind |-> "AnyChar", c |-> "", cs |-> {}]
AnySequence == [kind |-> "AnySequence", c |-> "", cs |-> {}]
AnyRecursiveSequence == [kind |-> "AnyRecursiveSequence", c |-> "", cs |-> {}]
AnyWithin(cs) == [kind |-> "AnyWithin", c |-> "", cs |-> cs]
AnyExcept(cs) == [kind |-> "AnyExcept", c |-> "", cs |-> cs]

parse_char_specifiers(s) == { s[k] : k \in 1..Len(s) }

PatternError == [ok |-> FALSE, tokens |-> << >>, original |-> << >>]

\* index of the first character at or after `from` (0-based) that is not '*'
RECURSIVE StarsEnd(_, _)
StarsEnd(chars, from) ==
    IF from < Len(chars) /\ chars[from + 1] = "*"
    THEN StarsEnd(chars, from + 1) ELSE from

RECURSIVE PatternParse(_, _, _)
PatternParse(chars, at, tokens) ==
    IF at >= Len(chars)
    THEN [ok |-> TRUE, tokens |-> tokens, original |-> chars]
    ELSE
    LET c == chars[at + 1] IN
    CASE c = "?" -> PatternParse(chars, at + 1, Append(tokens, AnyChar))
      [] c = "*" ->
            LET j == StarsEnd(chars, at)
                count == j - at
            IN  IF count > 2 THEN PatternError
                ELSE IF count = 2
                THEN IF j = 2 \/ is_separator(chars[(j - count - 1) + 1])
                     THEN LET toks ==
                                IF ~(Len(tokens) > 1
                                       /\ tokens[Len(tokens)] = AnyRecursiveSequence)
                                THEN Append(tokens, AnyRecursiveSequence)
                                ELSE tokens
                          IN  IF j < Len(chars) /\ is_separator(chars[j + 1])
                              THEN PatternParse(chars, j + 1, toks)
                              ELSE IF j = Len(chars)
                              THEN PatternParse(chars, j, toks)
                              ELSE PatternError
                     ELSE PatternError
                ELSE PatternParse(chars, j, Append(tokens, AnySequence))
      [] c = "[" ->
            IF at + 4 <= Len(chars) /\ chars[(at + 1) + 1] = "!"
            THEN LET j == Position(chars, at + 3, "]")
                 IN  IF j < 0 THEN PatternError
                     ELSE PatternParse(chars, at + j + 4,
                            Append(tokens, AnyExcept(parse_char_specifiers(
                                Slice(chars, at + 2, at + 3 + j)))))
            ELSE IF at + 3 <= Len(chars) /\ chars[(at + 1) + 1] # "!"
            THEN LET j == Position(chars, at + 2, "]")
                 IN  IF j < 0 THEN PatternError
                     ELSE PatternParse(chars, at + j + 3,
                            Append(tokens, AnyWithin(parse_char_specifiers(
                                Slice(chars, at + 1, at + 2 + j)))))
            ELSE PatternError
      [] OTHER -> PatternParse(chars, at + 1, Append(tokens, Char(c)))

\* Pattern::new
PatternNew(pattern) == PatternParse(pattern, 0, << >>)

\* one non-wildcard token against one character
TokenMatches(token, c) ==
    CASE token.kind = "AnyChar" -> TRUE
      [] token.kind = "AnyWithin" -> c \in token.cs
      [] token.kind = "AnyExcept" -> c \notin token.cs
      [] OTHER -> c = token.c

\* Pattern::matches_from: ti is the 0-based token index, at the 0-based
\* position in `file` of the next character file.next() returns
RECURSIVE matches_from(_, _, _, _, _), matches_from_loop(_, _, _, _, _)
matches_from(tokens, follows_separator, file, at, ti) ==
    IF ti >= Len(tokens)
    THEN IF at >= Len(file) THEN "Match" ELSE "SubPatternDoesntMatch"
    ELSE
    LET token == tokens[ti + 1] IN
    IF token.kind \in {"AnySequence", "AnyRecursiveSequence"}
    THEN LET empty == matches_from(tokens, follows_separator, file, at, ti + 1)
         IN  IF empty # "SubPatternDoesntMatch" THEN empty
             ELSE matches_from_loop(tokens, follows_separator, file, at, ti)
    ELSE IF at >= Len(file) THEN "EntirePatternDoesntMatch"
    ELSE IF ~TokenMatches(token, file[at + 1]) THEN "SubPatternDoesntMatch"
    ELSE matches_from(tokens, is_separator(file[at + 1]), file, at + 1, ti + 1)

\* the `while let Some(c) = file.next()` loop of a wildcard token
matches_from_loop(tokens, follows_separator, file, at, ti) ==
    IF at >= Len(file)
    THEN matches_from(tokens, follows_separator, file, at, ti + 1)
    ELSE
    LET fs == is_separator(file[at + 1]) IN
    IF tokens[ti + 1].kind = "AnyRecursiveSequence" /\ ~fs
    THEN matches_from_loop(tokens, fs, file, at + 1, ti)
    ELSE LET m == matches_from(tokens, fs, file, at + 1, ti + 1)
         IN  IF m # "SubPatternDoesntMatch" THEN m
             ELSE matches_from_loop(tokens, fs, file, at + 1, ti)

\* Pattern::matches
PatternMatches(glob_pattern, str) ==
    matches_from(glob_pattern.tokens, TRUE, str, 0, 0) = "Match"

(***************************************************************************)
(* The ignore matcher.                                                     *)
(***************************************************************************)
IGNORED_FILES ==
    << <<"y","a","r","n",".","l","o","c","k">>,
       <<"C","a","r","g","o",".","l","o","c","k">>,
       <<"p","n","p","m","-","l","o","c","k",".","y","a","m","l">>,
       <<"p","a","c","k","a","g","e","-","l","o","c","k",".","j","s","o","n">>,
       <<".","D","S","_","S","t","o","r","e">>,
       <<"t","h","u","m","b","s",".","d","b">>,
       <<".","e","n","v">>,
       <<".","e","n","v",".","l","o","c","a","l">>,
       <<".","e","n","v",".","d","e","v","e","l","o","p","m","e","n","t">>,
       <<".","e","n","v",".","p","r","o","d","u","c","t","i","o","n">>,
       <<"n","o","d","e","_","m","o","d","u","l","e","s">>,
       <<"t","a","r","g","e","t">>,
       <<"d","i","s","t">>,
       <<"b","u","i","l","d">>,
       <<"L","I","C","E","N","S","E",".","m","d">>,
       <<"L","I","C","E","N","S","E">> >>

\* IgnorePatterns::new
IgnorePatternsNew == [exact_matches |-> {}, glob_patterns |-> << >>]

\* add_pattern that does not look for '[' when it classifies a pattern
add_pattern_no_bracket(self, pattern) ==
    IF Contains(pattern, "*") \/ Contains(pattern, "?")
    THEN LET compiled == PatternNew(pattern)
         IN  IF compiled.ok
             THEN [self |-> [self EXCEPT !.glob_patterns = Append(@, compiled)],
                   eprintln |-> << >>]
             ELSE [self |-> self, eprintln |-> << "Invalid glob pattern" >>]
    ELSE [self |-> [self EXCEPT !.exact_matches = @ \cup {pattern}],
          eprintln |-> << >>]

\* add_pattern that keeps a pattern Pattern::new rejects as an exact match
add_pattern_keep_rejected(self, pattern) ==
    IF Contains(pattern, "*") \/ Contains(pattern, "?") \/ Contains(pattern, "[")
    THEN LET compiled == PatternNew(pattern)
         IN  IF compiled.ok
             THEN [self |-> [self EXCEPT !.glob_patterns = Append(@, compiled)],
                   eprintln |-> << >>]
             ELSE [self |-> [self EXCEPT !.exact_matches = @ \cup {pattern}],
                   eprintln |-> << "Invalid glob pattern" >>]
    ELSE [self |-> [self EXCEPT !.exact_matches = @ \cup {pattern}],
          eprintln |-> << >>]

\* IgnorePatterns::add_pattern: the rule set afterwards, and the lines it
\* wrote to stderr
add_pattern(self, pattern) ==
    IF Contains(pattern, "*") \/ Contains(pattern, "?") \/ Contains(pattern, "[")
    THEN LET compiled == PatternNew(pattern)
         IN  IF compiled.ok
             THEN [self |-> [self EXCEPT !.glob_patterns = Append(@, compiled)],
                   eprintln |-> << >>]
             ELSE [self |-> self, eprintln |-> << "Invalid glob pattern" >>]
    ELSE [self |-> [self EXCEPT !.exact_matches = @ \cup {pattern}],
          eprintln |-> << >>]

\* IgnorePatterns::should_ignore
should_ignore(self, path_str) ==
    \/ path_str \in self.exact_matches
    \/ \E k \in 1..Len(self.glob_patterns) :
            PatternMatches(self.glob_patterns[k], path_str)

\* Path::file_name().and_then(|n| n.to_str()): None for the empty path
file_name(path) ==
    IF path = << >> THEN [some |-> FALSE, name |-> << >>]
    ELSE [some |-> TRUE, name |-> path[Len(path)]]

\* AncestorsIgnored without `if ancestor == base_path { break; }`
RECURSIVE AncestorsIgnoredNoBreak(_, _, _, _)
AncestorsIgnoredNoBreak(path, k, base_path, patterns) ==
    IF k < 0 THEN FALSE
    ELSE IF file_name(SubSeq(path, 1, k)).some
              /\ should_ignore(patterns, file_name(SubSeq(path, 1, k)).name)
    THEN TRUE
    ELSE AncestorsIgnoredNoBreak(path, k - 1, base_path, patterns)

\* the loop over path.ancestors(): the path itself first, then each parent,
\* down to the empty path; k is the number of components of the ancestor
RECURSIVE AncestorsIgnored(_, _, _, _)
AncestorsIgnored(path, k, base_path, patterns) ==
    IF k < 0 THEN FALSE
    ELSE LET ancestor == SubSeq(path, 1, k) IN
         IF ancestor = base_path THEN FALSE
         ELSE IF file_name(ancestor).some
                 /\ should_ignore(patterns, file_name(ancestor).name)
         THEN TRUE
         ELSE AncestorsIgnored(path, k - 1, base_path, patterns)

\* the loop that pushes the components of the relative path one by one
ComponentsIgnored(relative_path, patterns) ==
    \E k \in 1..Len(relative_path) :
        should_ignore(patterns, to_string_lossy(SubSeq(relative_path, 1, k)))

should_ignore_file(path, base_path, patterns) ==
    IF file_name(path).some /\ should_ignore(patterns, file_name(path).name)
    THEN TRUE
    ELSE IF AncestorsIgnored(path, Len(path), base_path, patterns)
    THEN TRUE
    ELSE LET relative_path == strip_prefix(path, base_path) IN
         IF relative_path.ok
         THEN \/ should_ignore(patterns, to_string_lossy(relative_path.path))
              \/ ComponentsIgnored(relative_path.path, patterns)
         ELSE FALSE

(***************************************************************************)
(* File contents: content_inspector::inspect and String::from_utf8_lossy.  *)
(* Contents are shorter than inspect's scan window.                        *)
(***************************************************************************)
BYTE_ORDER_MARKS ==
    << [bom |-> <<"xEF", "xBB", "xBF">>, content_type |-> "UTF_8_BOM"],
       [bom |-> <<"x00", "x00", "xFE", "xFF">>, content_type |-> "UTF_32BE"],
       [bom |-> <<"xFF", "xFE", "x00", "x00">>, content_type |-> "UTF_32LE"],
       [bom |-> <<"xFE", "xFF">>, content_type |-> "UTF_16BE"],
       [bom |-> <<"xFF", "xFE">>, content_type |-> "UTF_16LE"] >>

MAGIC_NUMBERS == { <<"%", "P", "D", "F">>, <<"x89", "P", "N", "G">> }

inspect(buffer) ==
    LET marks == { k \in 1..Len(BYTE_ORDER_MARKS) :
                        StartsWith(buffer, BYTE_ORDER_MARKS[k].bom) }
    IN  IF marks # {}
        THEN BYTE_ORDER_MARKS[CHOOSE k \in marks : \A m \in marks : k <= m].content_type
        ELSE IF Contains(buffer, "x00") THEN "BINARY"
        ELSE IF \E magic \in MAGIC_NUMBERS : StartsWith(buffer, magic) THEN "BINARY"
        ELSE "UTF_8"

\* is_text_file that takes only UTF-8 for text
is_text_file_utf8_only(content) == inspect(content) = "UTF_8"

is_text_file(content) == inspect(content) \in {"UTF_8", "UTF_16LE", "UTF_16BE"}

\* String::from_utf8_lossy: 0xFE and 0xFF occur in no UTF-8 sequence, each is
\* replaced by U+FFFD; every other byte of the model is ASCII
from_utf8_lossy(content) ==
    [k \in 1..Len(content) |->
        IF content[k] \in {"xFE", "xFF"} THEN "uFFFD" ELSE content[k]]

(***************************************************************************)
(* Inputs: names, scan roots, patterns, directory entries.                 *)
(***************************************************************************)
NameA == <<"a">>
NameB == <<"b">>
NameDist == <<"d", "i", "s", "t">>

CompNames == {NameA, NameB, NameDist}

\* scan roots of SpecRules: a root named like a built-in rule, and a root
\* below a directory "b"
Roots == { <<NameDist>>, <<NameB, NameA>> }

\* --ignore values of SpecRules: exact names and paths, globs, and patterns
\* Pattern::new rejects
RulesPatterns ==
    { <<"b">>, <<"a", "/", "b">>,
      <<"?">>, <<"a", "*">>, <<"[", "!", "a", "]">>, <<"*", "*", "/", "b">>,
      <<"[">>, <<"*", "*", "*">>, <<"a", "*", "*">> }

SeqsUpTo(S, n) == UNION { [1..k -> S] : k \in 0..n }

\* paths of files below `root`, at most MaxDepth components deep
ProbePaths(root) == { root \o rel : rel \in SeqsUpTo(CompNames, MaxDepth) \ {<< >>} }

\* the scan root and --ignore values of Spec
RunRoot == <<NameDist>>
RunIgnoreLists ==
    { << >>,
      << <<"[">>, <<"b">> >>,                       \* rejected, then an exact name
      << <<"*", "*", "*">>, <<"b", "*">> >> }       \* rejected, then a glob

\* what fs::read returns
ReadErr == [ok |-> FALSE, content |-> << >>]
ReadOk(content) == [ok |-> TRUE, content |-> content]
Contents ==
    { <<"h">>,                              \* ASCII text
      <<"x00", "h">>,                       \* a null byte, then bytes
      <<"xFF", "xFE", "h", "x00">>,         \* UTF-16LE with its byte order mark
      <<"xFE", "xFF", "x00", "h">>,         \* UTF-16BE with its byte order mark
      <<"xFF", "xFE", "x00", "x00">> }      \* the UTF-32LE byte order mark

\* what Walk yields: Err(_), a directory, or a regular file and what reading
\* it returns
IterErr == [ok |-> FALSE, path |-> << >>, is_file |-> FALSE, read |-> ReadErr]
Directory(path) == [ok |-> TRUE, path |-> path, is_file |-> FALSE, read |-> ReadErr]
File(path, read) == [ok |-> TRUE, path |-> path, is_file |-> TRUE, read |-> read]

\* the entries of Spec: the root directory and dist/b, dist/a with every
\* content, dist/b/a, and the file b/a.  Walk joins every path it yields onto
\* the root, so b/a is the entry the Err arm of strip_prefix guards against
Entries ==
    {IterErr, Directory(RunRoot), Directory(RunRoot \o <<NameB>>)}
    \cup { File(RunRoot \o <<NameA>>, r) :
                r \in {ReadErr} \cup { ReadOk(c) : c \in Contents } }
    \cup { File(RunRoot \o <<NameB, NameA>>, r) :
                r \in {ReadErr, ReadOk(<<"h">>), ReadOk(<<"xFE", "xFF", "x00", "h">>)} }
    \cup { File(<<NameB, NameA>>, ReadOk(<<"h">>)) }

(***************************************************************************)
(* main.                                                                   *)
(***************************************************************************)
NoProbe == [some |-> FALSE, path |-> << >>, ignored |-> FALSE]
NoClipboard == [new |-> "none", set |-> "none", text |-> << >>]

InitBody ==
    /\ platform \in Platforms
    /\ pc = "defaults"
    /\ i = 0
    /\ ignore_patterns = IgnorePatternsNew
    /\ output = << >>
    /\ files = {}
    /\ processed = << >>
    /\ stderr = << >>
    /\ stdout = << >>
    /\ clipboard = NoClipboard
    /\ pending = {}
    /\ result = "none"
    /\ probe = NoProbe

Init ==
    /\ args \in [path : {RunRoot}, ignore : RunIgnoreLists]
    /\ InitBody

InitRules ==
    /\ args \in [path : Roots, ignore : SeqsUpTo(RulesPatterns, MaxIgnore)]
    /\ InitBody

\* add_pattern for each pattern of a list, in order
RECURSIVE AddPatterns(_, _)
AddPatterns(self, patterns) ==
    IF patterns = << >> THEN [self |-> self, eprintln |-> << >>]
    ELSE LET first == add_pattern(self, Head(patterns))
             rest == AddPatterns(first.self, Tail(patterns))
         IN  [self |-> rest.self, eprintln |-> first.eprintln \o rest.eprintln]

\* for &file in IGNORED_FILES { ignore_patterns.add_pattern(file) }
AddDefaults ==
    /\ pc = "defaults"
    /\ LET added == AddPatterns(ignore_patterns, IGNORED_FILES)
       IN  /\ ignore_patterns' = added.self
           /\ stderr' = stderr \o added.eprintln
    /\ pc' = IF args.ignore = << >> THEN "walk" ELSE "user"
    /\ UNCHANGED << platform, args, i, output, files, processed, stdout,
                    clipboard, pending, result, probe >>

\* one turn of: for pattern in &args.ignore { ignore_patterns.add_pattern(pattern) }
AddUser ==
    /\ pc = "user"
    /\ LET added == add_pattern(ignore_patterns, args.ignore[i + 1])
       IN  /\ ignore_patterns' = added.self
           /\ stderr' = stderr \o added.eprintln
    /\ i' = i + 1
    /\ pc' = IF i + 1 = Len(args.ignore) THEN "walk" ELSE "user"
    /\ UNCHANGED << platform, args, output, files, processed, stdout,
                    clipboard, pending, result, probe >>

\* FormatRecord that ends the record with a single newline
FormatRecordOneNewline(relative_path, content_str) ==
    <<"-", "-", "-", "\n">>
        \o <<"f", "i", "l", "e", ":", " ">> \o relative_path \o <<"\n">>
        \o <<"-", "-", "-", "\n", "\n">>
        \o content_str
        \o <<"\n">>

\* the record main appends for one accepted file
FormatRecord(relative_path, content_str) ==
    <<"-", "-", "-", "\n">>
        \o <<"f", "i", "l", "e", ":", " ">> \o relative_path \o <<"\n">>
        \o <<"-", "-", "-", "\n", "\n">>
        \o content_str
        \o <<"\n", "\n">>

\* Emit without files.insert(relative_path)
EmitNoInsert(out, accepted, relative_path, content_str) ==
    [output |-> out \o FormatRecord(relative_path, content_str),
     files |-> accepted,
     eprintln |-> << >>]

\* the five push_str calls and files.insert(relative_path)
Emit(out, accepted, relative_path, content_str) ==
    [output |-> out \o FormatRecord(relative_path, content_str),
     files |-> accepted \cup {relative_path},
     eprintln |-> << >>]

\* the body of `for entry in Walk::new(&args.path)` for one entry: the output,
\* the accepted paths and the lines written to stderr
LoopBody(out, accepted, entry) ==
    LET skip == [output |-> out, files |-> accepted, eprintln |-> << >>]
        warn(msg) == [output |-> out, files |-> accepted, eprintln |-> << msg >>]
    IN  IF ~entry.ok THEN warn("Error accessing entry")
        ELSE IF ~entry.is_file THEN skip
        ELSE IF should_ignore_file(entry.path, args.path, ignore_patterns) THEN skip
        ELSE IF ~entry.read.ok THEN warn("Error reading file")
        ELSE IF ~is_text_file(entry.read.content) THEN skip
        ELSE LET content_str == from_utf8_lossy(entry.read.content)
                 stripped == strip_prefix(entry.path, args.path)
             IN  IF ~stripped.ok THEN warn("Error getting relative path")
                 ELSE Emit(out, accepted, to_string_lossy(stripped.path), content_str)

\* ProcessEntry where a failure on one entry returns the error from main
ProcessEntryAbortOnError ==
    /\ pc = "walk"
    /\ Len(processed) < MaxEntries
    /\ \E entry \in Entries :
          LET after == LoopBody(output, files, entry)
          IN  /\ output' = after.output
              /\ files' = after.files
              /\ stderr' = stderr \o after.eprintln
              /\ processed' = Append(processed, entry)
              /\ pc' = IF after.eprintln = << >> THEN pc ELSE "exit"
              /\ result' = IF after.eprintln = << >> THEN result ELSE "Err"
    /\ UNCHANGED << platform, args, i, ignore_patterns, stdout, clipboard,
                    pending, probe >>

\* Walk yields one more entry and main runs the loop body on it
ProcessEntry ==
    /\ pc = "walk"
    /\ Len(processed) < MaxEntries
    /\ \E entry \in Entries :
          LET after == LoopBody(output, files, entry)
          IN  /\ output' = after.output
              /\ files' = after.files
              /\ stderr' = stderr \o after.eprintln
              /\ processed' = Append(processed, entry)
    /\ UNCHANGED << platform, args, pc, i, ignore_patterns, stdout, clipboard,
                    pending, result, probe >>

\* Walk returns None: the loop ends
WalkEnd ==
    /\ pc = "walk"
    /\ pc' = "clipboard"
    /\ UNCHANGED << platform, args, i, ignore_patterns, output, files, processed,
                    stderr, stdout, clipboard, pending, result, probe >>

\* ClipboardNew where main goes on without a clipboard
ClipboardNewSwallowed ==
    /\ pc = "clipboard"
    /\ \E ok \in BOOLEAN :
          /\ clipboard' = [clipboard EXCEPT !.new = IF ok THEN "Ok" ELSE "Err"]
          /\ pc' = IF ok THEN "set_text" ELSE "report"
          /\ result' = result
    /\ UNCHANGED << platform, args, i, ignore_patterns, output, files, processed,
                    stderr, stdout, pending, probe >>

\* let mut clipboard = Clipboard::new()?;
ClipboardNew ==
    /\ pc = "clipboard"
    /\ \E ok \in BOOLEAN :
          IF ok
          THEN /\ clipboard' = [clipboard EXCEPT !.new = "Ok"]
               /\ pc' = "set_text"
               /\ result' = result
          ELSE /\ clipboard' = [clipboard EXCEPT !.new = "Err"]
               /\ pc' = "exit"
               /\ result' = "Err"
    /\ UNCHANGED << platform, args, i, ignore_patterns, output, files, processed,
                    stderr, stdout, pending, probe >>

\* clipboard.set_text(&output)?;
SetText ==
    /\ pc = "set_text"
    /\ \E ok \in BOOLEAN :
          IF ok
          THEN /\ clipboard' = [clipboard EXCEPT !.set = "Ok", !.text = output]
               /\ pc' = "report"
               /\ result' = result
          ELSE /\ clipboard' = [clipboard EXCEPT !.set = "Err"]
               /\ pc' = "exit"
               /\ result' = "Err"
    /\ UNCHANGED << platform, args, i, ignore_patterns, output, files, processed,
                    stderr, stdout, pending, probe >>

ConfirmationLine == << "File structure and contents copied to clipboard:" >>

\* sleep, the confirmation line, and `for file in files` taking the set
PrintConfirmation ==
    /\ pc = "report"
    /\ stdout' = Append(stdout, ConfirmationLine)
    /\ pending' = files
    /\ pc' = "list"
    /\ UNCHANGED << platform, args, i, ignore_patterns, output, files, processed,
                    stderr, clipboard, result, probe >>

\* one turn of the report loop; a HashSet iterates in any order
PrintFile ==
    /\ pc = "list"
    /\ \E file \in pending :
          /\ stdout' = Append(stdout, <<"-", " ">> \o file)
          /\ pending' = pending \ {file}
    /\ UNCHANGED << platform, args, pc, i, ignore_patterns, output, files,
                    processed, stderr, clipboard, result, probe >>

\* Ok(())
ReturnOk ==
    /\ pc = "list"
    /\ pending = {}
    /\ result' = "Ok"
    /\ pc' = "exit"
    /\ UNCHANGED << platform, args, i, ignore_patterns, output, files, processed,
                    stderr, stdout, clipboard, pending, probe >>

Next ==
    \/ AddDefaults
    \/ AddUser
    \/ ProcessEntry
    \/ WalkEnd
    \/ ClipboardNew
    \/ SetText
    \/ PrintConfirmation
    \/ PrintFile
    \/ ReturnOk

Spec == Init /\ [][Next]_vars

\* should_ignore_file called on a file below the scan root, with the rule
\* set main has built
CallShouldIgnoreFile ==
    /\ pc = "walk"
    /\ ~probe.some
    /\ \E path \in ProbePaths(args.path) :
          probe' = [some |-> TRUE, path |-> path,
                    ignored |-> should_ignore_file(path, args.path, ignore_patterns)]
    /\ UNCHANGED << platform, args, pc, i, ignore_patterns, output, files,
                    processed, stderr, stdout, clipboard, pending, result >>

NextRules ==
    \/ AddDefaults
    \/ AddUser
    \/ CallShouldIgnoreFile

SpecRules == InitRules /\ [][NextRules]_vars

(***************************************************************************)
(* Properties.                                                             *)
(***************************************************************************)
Range(seq) == { seq[k] : k \in 1..Len(seq) }

GlobMetacharacters == {"*", "?", "["}
HasGlobMetacharacter(p) == \E k \in 1..Len(p) : p[k] \in GlobMetacharacters

\* the patterns main has passed to add_pattern so far
Supplied ==
    (IF pc = "defaults" THEN {} ELSE Range(IGNORED_FILES))
        \cup { args.ignore[k] : k \in 1..i }

\* the originals of the compiled globs
GlobList == { ignore_patterns.glob_patterns[k].original :
                    k \in 1..Len(ignore_patterns.glob_patterns) }

\* a string is in the exact-match set or is matched by a registered glob
Matched(str) ==
    \/ str \in ignore_patterns.exact_matches
    \/ \E k \in 1..Len(ignore_patterns.glob_patterns) :
            PatternMatches(ignore_patterns.glob_patterns[k], str)

\* the strings C1 names for a file below the scan root: its final segment,
\* the names of its ancestor directories strictly below the root, and every
\* component-wise prefix of its relative path (the whole of it included)
NamedStrings(path, root) ==
    LET rel == SubSeq(path, Len(root) + 1, Len(path))
    IN  {path[Len(path)]}
          \cup { rel[k] : k \in 1..(Len(rel) - 1) }
          \cup { to_string_lossy(SubSeq(rel, 1, k)) : k \in 1..Len(rel) }

\* C1: should_ignore_file(P, root, rules) is true exactly when the final
\* segment of P, the name of an ancestor of P strictly below the root, the
\* relative path of P or a component-wise prefix of it is in the exact-match
\* set or matched by a registered glob; the names of the root and of the
\* directories above it play no part.
C1_IgnoreExactlyWhenNamedStringMatches ==
    probe.some =>
        (probe.ignored <=> \E str \in NamedStrings(probe.path, args.path) : Matched(str))

\* C1 witness: a file two levels below the root b/a is not ignored although
\* the rule "b" names the directory above the root
C1_Witness ==
    /\ probe.some
    /\ ~probe.ignored
    /\ args.path = <<NameB, NameA>>
    /\ Len(probe.path) = 4
    /\ NameB \in ignore_patterns.exact_matches

\* C10: every pattern passed to add_pattern without a metacharacter is in the
\* exact-match set and not in the glob list; every one with a metacharacter
\* is never in the exact-match set and is in the glob list exactly when
\* Pattern::new accepted it; nothing else is in either bucket, so the
\* exact-match set holds no string containing '*', '?' or '['.
C10_OneBucketByMetacharacter ==
    /\ \A p \in Supplied :
          IF HasGlobMetacharacter(p)
          THEN /\ p \notin ignore_patterns.exact_matches
               /\ p \in GlobList <=> PatternNew(p).ok
          ELSE /\ p \in ignore_patterns.exact_matches
               /\ p \notin GlobList
    /\ \A p \in ignore_patterns.exact_matches :
          p \in Supplied /\ ~HasGlobMetacharacter(p)
    /\ \A p \in GlobList : p \in Supplied /\ HasGlobMetacharacter(p)

\* C10 witness: built-in and user patterns are in; one user pattern went to
\* each bucket
C10_Witness ==
    /\ pc = "walk"
    /\ i = 2
    /\ <<"b">> \in ignore_patterns.exact_matches
    /\ <<"[", "!", "a", "]">> \in GlobList

(***************************************************************************)
(* Properties of the run.                                                  *)
(***************************************************************************)
TextTags == {"UTF_8", "UTF_16LE", "UTF_16BE"}

IsBelowRoot(path) ==
    /\ Len(args.path) <= Len(path)
    /\ \A k \in 1..Len(args.path) : path[k] = args.path[k]

\* the six conditions of C2
Accepted(entry) ==
    /\ entry.ok
    /\ entry.is_file
    /\ ~should_ignore_file(entry.path, args.path, ignore_patterns)
    /\ entry.read.ok
    /\ inspect(entry.read.content) \in TextTags
    /\ IsBelowRoot(entry.path)

\* a file that was read and that the classifier does not tag as text
ClassifiedNotText(entry) ==
    /\ entry.ok
    /\ entry.is_file
    /\ ~should_ignore_file(entry.path, args.path, ignore_patterns)
    /\ entry.read.ok
    /\ inspect(entry.read.content) \notin TextTags

\* the three recoverable failures of C4
RecoverableFailure(entry) ==
    \/ ~entry.ok
    \/ /\ entry.ok
       /\ entry.is_file
       /\ ~should_ignore_file(entry.path, args.path, ignore_patterns)
       /\ \/ ~entry.read.ok
          \/ inspect(entry.read.content) \in TextTags /\ ~IsBelowRoot(entry.path)

Components(entry) == SubSeq(entry.path, Len(args.path) + 1, Len(entry.path))
RelativePath(entry) == to_string_lossy(Components(entry))

IsPrefix(s, t) == Len(s) <= Len(t) /\ SubSeq(t, 1, Len(s)) = s

\* C2: the entry just yielded gets a record appended and its relative path in
\* the accepted set exactly when the six conditions hold; otherwise output
\* and set stay as they were, and a file classified as not text writes no
\* warning either.
C2_RecordIffAccepted ==
    [][ Len(processed') = Len(processed) + 1 =>
          LET entry == processed'[Len(processed')] IN
          /\ Accepted(entry) =>
                /\ IsPrefix(output, output')
                /\ Len(output') > Len(output)
                /\ RelativePath(entry) \in files'
          /\ ~Accepted(entry) => output' = output /\ files' = files
          /\ ClassifiedNotText(entry) => stderr' = stderr ]_vars

\* C2 witness: a file of a null byte and more bytes left nothing, then the
\* same file as UTF-16LE text was accepted
C2_Witness ==
    /\ Len(processed) = 2
    /\ processed[1] = File(RunRoot \o <<NameA>>, ReadOk(<<"x00", "h">>))
    /\ processed[2] = File(RunRoot \o <<NameA>>, ReadOk(<<"xFF", "xFE", "h", "x00">>))
    /\ files = {NameA}
    /\ stderr = << >>

\* the record of C3 for an accepted entry
RecordText(entry) ==
    <<"-", "-", "-", "\n", "f", "i", "l", "e", ":", " ">>
        \o RelativePath(entry)
        \o <<"\n", "-", "-", "-", "\n", "\n">>
        \o from_utf8_lossy(entry.read.content)
        \o <<"\n", "\n">>

\* the records of the accepted entries among `entries`, in their order
RECURSIVE Document(_)
Document(entries) ==
    IF entries = << >> THEN << >>
    ELSE Document(SubSeq(entries, 1, Len(entries) - 1))
            \o (IF Accepted(entries[Len(entries)])
                THEN RecordText(entries[Len(entries)]) ELSE << >>)

\* C3: after the first k entries the output is the concatenation, in the
\* order yielded, of the records of the accepted entries among them (so it
\* starts empty and only grows), and the text given to the clipboard is
\* that document after the last entry.
C3_OutputIsRecordsInOrder ==
    /\ output = Document(processed)
    /\ clipboard.set = "Ok" => clipboard.text = Document(processed)

\* C3 witness: dist/b/a was yielded before dist/a, both were accepted, and
\* the clipboard holds the two records in that order
C3_Witness ==
    /\ clipboard.set = "Ok"
    /\ Len(processed) = 2
    /\ processed[1].path = RunRoot \o <<NameB, NameA>>
    /\ processed[2].path = RunRoot \o <<NameA>>
    /\ Accepted(processed[1])
    /\ Accepted(processed[2])

\* the warnings of the traversal loop
WalkWarnings == SelectSeq(stderr, LAMBDA line : line # "Invalid glob pattern")

NotRecoverableFailure(entry) == ~RecoverableFailure(entry)

\* what C4 says of the per-entry failures: one warning each, no trace in the
\* output or the accepted set, and no failure of the run
FailuresAreContained ==
    /\ Len(WalkWarnings) =
          Cardinality({ k \in 1..Len(processed) : RecoverableFailure(processed[k]) })
    /\ output = Document(SelectSeq(processed, NotRecoverableFailure))
    /\ files = { RelativePath(processed[k]) :
                    k \in { j \in 1..Len(processed) : Accepted(processed[j]) } }
    /\ result = "Err" => clipboard.new = "Err" \/ clipboard.set = "Err"
    /\ pc \in {"defaults", "user", "walk"} => result = "none"

IsRejected(pattern) == HasGlobMetacharacter(pattern) /\ ~PatternNew(pattern).ok
NotRejected(pattern) == ~IsRejected(pattern)
RulesWithoutRejected ==
    AddPatterns(IgnorePatternsNew,
                IGNORED_FILES \o SelectSeq(args.ignore, NotRejected)).self

\* C5: add_pattern on a pattern that does not compile writes one warning and
\* leaves both buckets as they were; the loop goes on to the next pattern;
\* the finished rule set is the one built without the pattern; and main
\* fails only through the clipboard.
C5_RejectedGlobIsDropped ==
    /\ [][ (pc = "user" /\ IsRejected(args.ignore[i + 1])) =>
              /\ ignore_patterns' = ignore_patterns
              /\ stderr' = Append(stderr, "Invalid glob pattern")
              /\ i' = i + 1
              /\ pc' = IF i' = Len(args.ignore) THEN "walk" ELSE "user" ]_vars
    /\ [](pc \notin {"defaults", "user"} => ignore_patterns = RulesWithoutRejected)
    /\ [](result = "Err" => clipboard.new = "Err" \/ clipboard.set = "Err")

\* C5 witness: "[" was supplied and warned about, "b" after it was added,
\* and main returned Ok
C5_Witness ==
    /\ result = "Ok"
    /\ args.ignore = << <<"[">>, <<"b">> >>
    /\ stderr = << "Invalid glob pattern" >>
    /\ NameB \in ignore_patterns.exact_matches

\* C6: when Clipboard::new fails main returns the error at once: no text is
\* set and nothing is printed.
C6_NoSinkNoOutput ==
    clipboard.new = "Err" =>
        /\ pc = "exit"
        /\ result = "Err"
        /\ clipboard.set = "none"
        /\ stdout = << >>

\* C6 witness: files were accepted, then the sink could not be constructed
C6_Witness ==
    /\ clipboard.new = "Err"
    /\ files # {}
    /\ output # << >>

\* the records of a document, read off its text: a record starts where the
\* text "---\nfile: " stands, and its header runs to the end of that line
HeaderMarker == <<"-", "-", "-", "\n", "f", "i", "l", "e", ":", " ">>
RecordStarts(doc) ==
    { p \in 1..(Len(doc) - Len(HeaderMarker) + 1) :
            SubSeq(doc, p, p + Len(HeaderMarker) - 1) = HeaderMarker }
HeaderAt(doc, p) ==
    LET from == p + Len(HeaderMarker)
        ends == { q \in from..Len(doc) : doc[q] = "\n" }
        to == CHOOSE q \in ends : \A r \in ends : q <= r
    IN  SubSeq(doc, from, to - 1)

\* the iterator has yielded no file path twice
EachPathYieldedOnce ==
    \A j, k \in 1..Len(processed) :
        (j # k /\ processed[j].ok /\ processed[k].ok)
            => processed[j].path # processed[k].path

ReportLine(relative_path) == <<"-", " ">> \o relative_path

RECURSIVE JoinWith(_, _)
JoinWith(components, sep) ==
    IF components = << >> THEN << >>
    ELSE IF Len(components) = 1 THEN components[1]
    ELSE components[1] \o <<sep>> \o JoinWith(Tail(components), sep)

\* every accepted entry has its record header, its member of the accepted
\* set and, once main returned Ok, its report line written with `sep`
RenderedWith(sep) ==
    \A k \in 1..Len(processed) :
        Accepted(processed[k]) =>
            LET shown == JoinWith(Components(processed[k]), sep) IN
            /\ \E p \in RecordStarts(output) : HeaderAt(output, p) = shown
            /\ shown \in files
            /\ result = "Ok" => \E n \in 1..Len(stdout) : stdout[n] = ReportLine(shown)

\* C8 as stated: on every platform the relative path is shown with '/'
\* between its components
C8_Original == RenderedWith("/")

\* C8 amended: the relative path is shown with the platform's own separator
\* between its components: '/' on Unix-like targets, '\' on Windows
C8_NativeSeparator ==
    RenderedWith(IF platform = "windows" THEN "\\" ELSE "/")

\* C8 witness: on Windows, dist\b\a was accepted and reported
C8_Witness ==
    /\ platform = "windows"
    /\ result = "Ok"
    /\ <<"b", "\\", "a">> \in files

====
